---- MODULE Spec2Model ----
(***************************************************************************)
(* Model of the motor recommendation engine of uav_electronics_tool        *)
(* (src/src/uav_electronics_tool/recommend.py) and of the command that     *)
(* drives it (src/src/uav_electronics_tool/cli.py).                        *)
(*                                                                         *)
(* Numbers.  The program computes in IEEE doubles.  A double is modelled   *)
(* by an extended rational [s, n, d]: sign s, numerator n, denominator d,  *)
(* with n/0 the infinities, 0/0 NaN, and a signed zero.  Rounding is not   *)
(* modelled: every operation is exact.                                     *)
(*                                                                         *)
(* Units.  TLC's integers are 32 bits wide, so the product                 *)
(* G * 101.971621 cannot be written out.  Forces and powers are therefore  *)
(* counted in units that absorb it: newtons in units of G, gram-force,     *)
(* watts and amperes in units of G * 101.971621.  Catalog powers and       *)
(* currents are given in the same units.  Catalog masses and prices are    *)
(* given in units of 1e-9 (g, USD), so that the 1e-9 guard of the          *)
(* normalisation is the number 1; volts are volts.                         *)
(***************************************************************************)
EXTENDS Integers, Sequences, FiniteSets, TLC

VARIABLES
    mission,    \* the Mission passed to recommend_motors
    motors,     \* the catalog DataFrame passed to recommend_motors
    recs,       \* the DataFrame recommend_motors returned
    saved,      \* the table save_recommendations wrote
    pc,         \* position of the recommend command
    csv,        \* the table read_csv produced from the motors file
    loaded      \* outcome of load_motors_csv

vars == <<mission, motors, recs, saved, pc, csv, loaded>>

\* Longest catalog (and longest csv table) explored.
MaxMotors == 3

\* Python's None, for an Optional[float]
None == [none |-> TRUE]

-----------------------------------------------------------------------------
(* IEEE arithmetic on extended rationals *)

RECURSIVE GCD(_, _)
GCD(a, b) == IF b = 0 THEN a ELSE GCD(b, a % b)

NaN == [s |-> 1, n |-> 0, d |-> 0]

Norm(s, n, d) ==
    IF d = 0 THEN (IF n = 0 THEN NaN ELSE [s |-> s, n |-> 1, d |-> 0])
    ELSE IF n = 0 THEN [s |-> s, n |-> 0, d |-> 1]
    ELSE LET g == GCD(n, d) IN [s |-> s, n |-> n \div g, d |-> d \div g]

\* The double a/b, for an integer a and b > 0.
Q(a, b) == Norm(IF a < 0 THEN -1 ELSE 1, IF a < 0 THEN -a ELSE a, b)

IsNaN(x) == x.n = 0 /\ x.d = 0
IsInf(x) == x.n # 0 /\ x.d = 0
IsZero(x) == x.n = 0 /\ x.d # 0

\* n1/d1 * n2/d2 of two doubles in lowest terms, cross-reduced before
\* multiplying.
MulReduced(s, n1, d1, n2, d2, g1, g2) ==
    IF (d1 \div g2) * (d2 \div g1) = 0
    THEN (IF (n1 \div g1) * (n2 \div g2) = 0 THEN NaN ELSE [s |-> s, n |-> 1, d |-> 0])
    ELSE IF (n1 \div g1) * (n2 \div g2) = 0 THEN [s |-> s, n |-> 0, d |-> 1]
    ELSE [s |-> s, n |-> (n1 \div g1) * (n2 \div g2), d |-> (d1 \div g2) * (d2 \div g1)]

MulMag(s, n1, d1, n2, d2) ==
    MulReduced(s, n1, d1, n2, d2,
               IF n1 = 0 /\ d2 = 0 THEN 1 ELSE GCD(n1, d2),
               IF n2 = 0 /\ d1 = 0 THEN 1 ELSE GCD(n2, d1))

FMul(x, y) ==
    IF IsNaN(x) \/ IsNaN(y) THEN NaN
    ELSE MulMag(x.s * y.s, x.n, x.d, y.n, y.d)

FDiv(x, y) ==
    IF IsNaN(x) \/ IsNaN(y) THEN NaN
    ELSE MulMag(x.s * y.s, x.n, x.d, y.d, y.n)

FNeg(x) == IF IsNaN(x) THEN NaN ELSE [x EXCEPT !.s = -x.s]

FAdd(x, y) ==
    IF IsNaN(x) \/ IsNaN(y) THEN NaN
    ELSE IF IsInf(x) /\ IsInf(y) THEN (IF x.s = y.s THEN x ELSE NaN)
    ELSE IF IsInf(x) THEN x
    ELSE IF IsInf(y) THEN y
    ELSE LET g  == GCD(x.d, y.d)
             num == x.s * x.n * (y.d \div g) + y.s * y.n * (x.d \div g)
             den == (x.d \div g) * y.d
         IN  IF num = 0
             THEN [s |-> IF x.s = -1 /\ y.s = -1 THEN -1 ELSE 1, n |-> 0, d |-> 1]
             ELSE Norm(IF num < 0 THEN -1 ELSE 1, IF num < 0 THEN -num ELSE num, den)

FSub(x, y) == FAdd(x, FNeg(y))

\* x < y; false when either is NaN.
FLt(x, y) ==
    IF IsNaN(x) \/ IsNaN(y) THEN FALSE
    ELSE IF IsInf(x) /\ IsInf(y) THEN x.s < y.s
    ELSE x.s * x.n * y.d < y.s * y.n * x.d

FLe(x, y) == ~IsNaN(x) /\ ~IsNaN(y) /\ ~FLt(y, x)
FGe(x, y) == FLe(y, x)
FEq(x, y) == FLe(x, y) /\ FLe(y, x)

\* Python's builtin max(a, b): b when b > a, else a (so max(nan, b) is nan).
PyMax(a, b) == IF FLt(a, b) THEN b ELSE a

\* The least and the greatest of a set of doubles without NaN.
LeastOf(S) == CHOOSE x \in S : \A y \in S : FLe(x, y)
GreatestOf(S) == CHOOSE x \in S : \A y \in S : FLe(y, x)

\* pandas Series.min() and Series.max(): NaN over an empty column.
SeriesMin(df, col) == IF df = <<>> THEN NaN ELSE LeastOf({df[i][col] : i \in DOMAIN df})
SeriesMax(df, col) == IF df = <<>> THEN NaN ELSE GreatestOf({df[i][col] : i \in DOMAIN df})

-----------------------------------------------------------------------------
(* Constants of recommend.py *)

G == Q(1, 1)                    \* 9.80665 m/s^2, the unit of force
GF_PER_N == Q(1, 1)             \* 101.971621 gf/N, absorbed in the unit
CELL_V == Q(37, 10)             \* LiPo nominal cell voltage
g_per_w == Q(7, 1)
peak_factor == Q(8, 5)
V_GUARD == Q(1, 1000000)        \* 1e-6 V
RANGE_GUARD == Q(1, 1)          \* 1e-9, in the unit of masses and prices
MIN_MARGIN == Q(6, 5)           \* 1.2
W_MASS == Q(2, 5)
W_PRICE == Q(3, 10)
W_MARGIN == Q(3, 10)
HALF == Q(1, 2)

-----------------------------------------------------------------------------
(* Physical model: recommend.py lines 23-25 and 70-88 *)

nominal_voltage_from_s(cells_s) == FMul(Q(cells_s, 1), CELL_V)

\* Python truth value of an Optional[float]: None and 0.0 are false.
Truthy(x) == x # None /\ ~IsZero(x)

\* mission.voltage_nom_v or nominal_voltage_from_s(mission.battery_cells_s)
v_nom(M) ==
    IF Truthy(M.voltage_nom_v) THEN M.voltage_nom_v
    ELSE nominal_voltage_from_s(M.battery_cells_s)

total_thrust_n(M) == FMul(FMul(M.thrust_to_weight, M.mass_kg), G)

\* float / int: Python raises ZeroDivisionError when the int is 0.
RaisesZeroDivision(M) == M.n_motors = 0

thrust_per_motor_n(M) == FDiv(total_thrust_n(M), Q(M.n_motors, 1))

thrust_per_motor_gf(M) == FMul(thrust_per_motor_n(M), GF_PER_N)

hover_power_w_est(M) == FDiv(thrust_per_motor_gf(M), g_per_w)

peak_power_w_est(M) == FMul(hover_power_w_est(M), peak_factor)

peak_current_a_est(M) == FDiv(peak_power_w_est(M), PyMax(v_nom(M), V_GUARD))

-----------------------------------------------------------------------------
(* The DataFrame pipeline of recommend_motors: recommend.py lines 90-120.  *)
(* A DataFrame is a sequence of rows, a row a record of its columns.       *)

\* The frame with the given rows, as a sequence value.
Frame(rows) == SubSeq(rows, 1, Len(rows))

\* A faulty variant of VoltageMask, to test the properties against: the bounds taken exclusive.
VoltageMaskExclusive(r, v) == FLt(r.voltage_min_v, v) /\ FLt(v, r.voltage_max_v)

\* (df["voltage_min_v"] <= v_nom) & (v_nom <= df["voltage_max_v"])
VoltageMask(r, v) == FLe(r.voltage_min_v, v) /\ FLe(v, r.voltage_max_v)

VoltageFilterAt(df, v) == SelectSeq(df, LAMBDA r : VoltageMask(r, v))

VoltageFilter(df, M) == VoltageFilterAt(df, v_nom(M))

\* df["power_margin"] = df["max_power_w"] / peak_power_w_est
\* df["current_margin"] = df["max_current_a"] / peak_current_a_est
\* with the two estimates computed once, before the frame is touched.
WithMarginsBy(df, peak_power, peak_current) ==
    Frame([i \in DOMAIN df |->
        df[i] @@ [power_margin   |-> FDiv(df[i].max_power_w, peak_power),
                  current_margin |-> FDiv(df[i].max_current_a, peak_current)]])

WithMargins(df, M) == WithMarginsBy(df, peak_power_w_est(M), peak_current_a_est(M))

\* A faulty variant of MarginMask, to test the properties against: a margin of exactly 1.2 rejected.
MarginMaskStrict(r) == FLt(MIN_MARGIN, r.power_margin) /\ FLt(MIN_MARGIN, r.current_margin)

\* (df["power_margin"] >= 1.2) & (df["current_margin"] >= 1.2)
MarginMask(r) == FGe(r.power_margin, MIN_MARGIN) /\ FGe(r.current_margin, MIN_MARGIN)

MarginFilter(df) == SelectSeq(df, MarginMask)

\* max(df[col].max() - df[col].min(), 1e-9)
SpreadOrGuard(df, col) == PyMax(FSub(SeriesMax(df, col), SeriesMin(df, col)), RANGE_GUARD)

\* A faulty variant of price_score, to test the properties against: the least price not subtracted.
price_score_unshifted(r, lo, spread) == FDiv(r.price_usd, spread)

\* (df["mass_g"] - df["mass_g"].min()) / max(df["mass_g"].max() - df["mass_g"].min(), 1e-9)
mass_score(r, lo, spread) == FDiv(FSub(r.mass_g, lo), spread)

\* the same over "price_usd"
price_score(r, lo, spread) == FDiv(FSub(r.price_usd, lo), spread)

margin_score(r) == FAdd(FMul(HALF, r.power_margin), FMul(HALF, r.current_margin))

\* 0.4 * mass_score + 0.3 * price_score - 0.3 * margin_score
ScoreOf(ms, ps, mg) == FSub(FAdd(FMul(W_MASS, ms), FMul(W_PRICE, ps)), FMul(W_MARGIN, mg))

\* One row with its four score columns.
ScoredRow(r, ms, ps, mg) ==
    r @@ [mass_score |-> ms, price_score |-> ps, margin_score |-> mg,
          score |-> ScoreOf(ms, ps, mg)]

\* Lines 104-110, the column reductions computed once.
WithScoresBy(df, mass_lo, mass_spread, price_lo, price_spread) ==
    Frame([i \in DOMAIN df |->
        ScoredRow(df[i], mass_score(df[i], mass_lo, mass_spread),
                  price_score(df[i], price_lo, price_spread), margin_score(df[i]))])

WithScores(df) ==
    WithScoresBy(df, SeriesMin(df, "mass_g"), SpreadOrGuard(df, "mass_g"),
                 SeriesMin(df, "price_usd"), SpreadOrGuard(df, "price_usd"))

\* Lines 112-116.
WithEstimatesBy(df, v, gf, hover, peak_power, peak_current) ==
    Frame([i \in DOMAIN df |->
        df[i] @@ [v_nom_used          |-> v,
                  thrust_per_motor_gf |-> gf,
                  hover_power_w_est   |-> hover,
                  peak_power_w_est    |-> peak_power,
                  peak_current_a_est  |-> peak_current]])

WithEstimates(df, M) ==
    WithEstimatesBy(df, v_nom(M), thrust_per_motor_gf(M), hover_power_w_est(M),
                    peak_power_w_est(M), peak_current_a_est(M))

\* A faulty variant of Scored, to test the properties against: the scores normalised before the margin filter.
ScoredBeforeMarginFilter(df0, M) ==
    WithEstimates(MarginFilter(WithScores(WithMargins(VoltageFilter(df0, M), M))), M)

\* The frame of line 100: the rows that pass both filters, with their margins.
Survivors(df0, M) == MarginFilter(WithMargins(VoltageFilter(df0, M), M))

\* The frame of line 117, before the sort.
Scored(df0, M) == WithEstimates(WithScores(Survivors(df0, M)), M)

\* Ascending by score, NaN last.
InOrder(a, b) == IsNaN(b.score) \/ FLe(a.score, b.score)

Ascending(out) == \A i, j \in DOMAIN out : i < j => InOrder(out[i], out[j])

RowOrders(df) ==
    {[i \in DOMAIN df |-> df[p[i]]] :
        p \in {q \in [DOMAIN df -> DOMAIN df] : \A i, j \in DOMAIN df : q[i] = q[j] => i = j}}

\* df.sort_values("score", ascending=True).reset_index(drop=True).  The sort
\* is pandas' default kind, quicksort, which is not stable: rows of equal
\* score may come out in any order.
SortValues(df) == {out \in RowOrders(df) : Ascending(out)}

\* A faulty variant of MotorsAfterCall, to test the properties against: the filter and the margin columns applied to
\* the catalog itself instead of to a copy.
MotorsEditedInPlace(df0, M) == WithMargins(VoltageFilter(df0, M), M)

\* The catalog object after the call: every edit went to the copy of line 90.
MotorsAfterCall(df0, M) == df0

\* A faulty variant of RecommendOutcome, to test the properties against: a min() that raises on an empty column.
RecommendOutcomeEmptyRaises(df0, M) ==
    IF RaisesZeroDivision(M) THEN "ZeroDivisionError"
    ELSE IF Survivors(df0, M) = <<>> THEN "ValueError"
    ELSE "returned"

\* How a call ends: line 74 raises when n_motors is 0; no other line raises
\* (a Series divided by 0.0 gives inf or NaN, min() of an empty column NaN).
RecommendOutcome(df0, M) ==
    IF RaisesZeroDivision(M) THEN "ZeroDivisionError" ELSE "returned"

-----------------------------------------------------------------------------
(* save_recommendations: recommend.py lines 123-146 *)

SaveCols ==
    <<"id", "manufacturer", "model", "kv", "mass_g", "price_usd", "voltage_min_v",
      "voltage_max_v", "max_power_w", "max_current_a", "power_margin",
      "current_margin", "score", "url", "v_nom_used", "thrust_per_motor_gf",
      "hover_power_w_est", "peak_power_w_est", "peak_current_a_est">>

\* df.to_csv(columns=[c for c in cols if c in df.columns])
SavedTable(df) ==
    [i \in DOMAIN df |->
        [c \in {SaveCols[k] : k \in DOMAIN SaveCols} \cap DOMAIN df[i] |-> df[i][c]]]

-----------------------------------------------------------------------------
(* load_motors_csv: recommend.py lines 28-66 *)

Required ==
    <<"id", "manufacturer", "model", "kv", "max_current_a", "max_power_w",
      "voltage_min_v", "voltage_max_v", "mass_g", "price_usd", "url">>

NumericCols ==
    <<"kv", "max_current_a", "max_power_w", "voltage_min_v", "voltage_max_v",
      "mass_g", "price_usd">>

Range(seq) == {seq[i] : i \in DOMAIN seq}

\* pd.to_numeric(text, errors="coerce") on the cell texts the model uses.
ToNumeric(text) ==
    CASE text = "12"  -> Q(12, 1)
      [] text = "2.5" -> Q(5, 2)
      [] text = "-3"  -> Q(-3, 1)
      [] OTHER        -> NaN

\* [c for c in required if c not in df.columns]
MissingCols(t) == SelectSeq(Required, LAMBDA c : c \notin t.columns)

\* The frame after the loop of lines 58-59.
Coerced(t) ==
    [i \in DOMAIN t.rows |->
        [c \in t.columns |->
            IF c \in Range(NumericCols) THEN ToNumeric(t.rows[i][c]) ELSE t.rows[i][c]]]

\* df[numeric_cols].isna().any(axis=1)
BadRow(r) == \E c \in Range(NumericCols) : IsNaN(r[c])

\* A faulty variant of BadIds, to test the properties against: only the first offending row reported.
BadIdsFirstOnly(df) ==
    LET bad == SelectSeq(df, LAMBDA r : \E c \in Range(NumericCols) : IsNaN(r[c]))
    IN  IF bad = <<>> THEN <<>> ELSE <<bad[1].id>>

\* df.loc[bad, "id"].tolist()
BadIds(df) ==
    LET bad == SelectSeq(df, BadRow) IN [i \in DOMAIN bad |-> bad[i].id]

\* What load_motors_csv does with the table read_csv produced.
LoadOutcome(t) ==
    IF MissingCols(t) # <<>>
    THEN [status |-> "ValueError", what |-> "missing columns", list |-> MissingCols(t)]
    ELSE IF \E i \in DOMAIN Coerced(t) : BadRow(Coerced(t)[i])
    THEN [status |-> "ValueError", what |-> "non-numeric values in rows",
          list |-> BadIds(Coerced(t))]
    ELSE [status |-> "returned", df |-> Coerced(t)]

-----------------------------------------------------------------------------
(* Inputs *)

\* Mission fields the command line can supply (cli.py lines 23-27): valid
\* values, and values that break the Mission invariant.
NMotorsValues == {0, 1, 2}
MassKgValues == {Q(0, 1), Q(1, 1)}
ThrustToWeightValues == {Q(-1, 1), Q(1, 1)}
CellsValues == {0, 6}
VoltageNomValues == {None, Q(0, 1), Q(-5, 1), Q(20, 1)}

Missions ==
    [n_motors : NMotorsValues, mass_kg : MassKgValues,
     thrust_to_weight : ThrustToWeightValues, battery_cells_s : CellsValues,
     voltage_nom_v : VoltageNomValues]

\* Mission(): the dataclass defaults of recommend.py lines 15-20.
DefaultMission ==
    [n_motors |-> 4, mass_kg |-> Q(2, 1), thrust_to_weight |-> Q(2, 1),
     battery_cells_s |-> 6, voltage_nom_v |-> None]

\* Motor data.  With d = T/W * mass / motors, a max power of k * 8/350 gives
\* the power margin k / (10 d), and a max current of j / 875 gives the
\* current margin j * v / (200 d) at v volts.  3.7 V * 6 is 111/5 V.
MotorData ==
    { \* both margins exactly 1.2 at d = 1 and 20 V
      [voltage_min_v |-> Q(20, 1),  voltage_max_v |-> Q(111, 5),
       max_power_w |-> Q(12 * 8, 350), max_current_a |-> Q(12, 875),
       mass_g |-> Q(1, 2), price_usd |-> Q(1, 1)],
      \* power margin 1.1 at d = 1
      [voltage_min_v |-> Q(20, 1),  voltage_max_v |-> Q(111, 5),
       max_power_w |-> Q(11 * 8, 350), max_current_a |-> Q(24, 875),
       mass_g |-> Q(0, 1), price_usd |-> Q(0, 1)],
      \* not for 20 V; current margin 0.666 at d = 1 and 22.2 V
      [voltage_min_v |-> Q(111, 5), voltage_max_v |-> Q(25, 1),
       max_power_w |-> Q(24 * 8, 350), max_current_a |-> Q(6, 875),
       mass_g |-> Q(2, 1), price_usd |-> Q(5, 2)],
      \* a range that holds 0 V and -5 V
      [voltage_min_v |-> Q(-10, 1), voltage_max_v |-> Q(0, 1),
       max_power_w |-> Q(24 * 8, 350), max_current_a |-> Q(24, 875),
       mass_g |-> Q(1, 1), price_usd |-> Q(1, 1)] }

\* The row of the catalog with identifier i and the given data.
MotorRow(i, data) ==
    [id |-> i, manufacturer |-> "maker", model |-> "model", kv |-> Q(900, 1),
     url |-> "url"] @@ data

\* Catalogs as load_motors_csv returns them: numeric columns, identifiers
\* in file order.
Catalogs ==
    UNION {{[i \in 1..n |-> MotorRow(i, f[i])] : f \in [1..n -> MotorData]} : n \in 0..MaxMotors}

\* Cell texts of one csv row: every numeric cell a number, or the cells of
\* one set of columns replaced by a text that is not a number.
BadSets == {{}, {"kv"}, {"price_usd"}, {"max_power_w", "mass_g"}}
BadTexts == {"abc", ""}
CsvRowTexts ==
    {[c \in Range(NumericCols) |->
        IF c \in B THEN t ELSE IF c = "price_usd" THEN "2.5"
                          ELSE IF c = "voltage_min_v" THEN "-3" ELSE "12"] :
        B \in BadSets, t \in BadTexts}

CsvRow(i, texts) ==
    [id |-> i, manufacturer |-> "maker", model |-> "model", url |-> "url"] @@ texts

DroppedColumns == {{}, {"url"}, {"kv"}}

\* Tables as read_csv returns them.
CsvTables ==
    UNION {{[columns |-> Range(Required) \ drop,
             rows    |-> [i \in 1..n |->
                            [c \in Range(Required) \ drop |-> CsvRow(i, f[i])[c]]]] :
                drop \in DroppedColumns, f \in [1..n -> CsvRowTexts]} : n \in 0..MaxMotors}

-----------------------------------------------------------------------------
(* The recommend command: cli.py lines 22-52 *)

NoTable == <<>>
NotLoaded == [status |-> "not called"]
NoCsv == [columns |-> {}, rows |-> <<>>]

\* The command with the catalog loaded, about to call recommend_motors.
Init ==
    /\ mission \in Missions
    /\ motors \in Catalogs
    /\ recs = NoTable
    /\ saved = NoTable
    /\ pc = "call"
    /\ csv = NoCsv
    /\ loaded = [status |-> "returned"]

\* recs = recommend_motors(motors, mission)
RecommendMotors ==
    /\ pc = "call"
    /\ IF RecommendOutcome(motors, mission) # "returned"
       THEN /\ pc' = RecommendOutcome(motors, mission)
            /\ recs' = NoTable
            /\ motors' = motors
       ELSE /\ pc' = "returned"
            /\ recs' \in SortValues(Scored(motors, mission))
            /\ motors' = MotorsAfterCall(motors, mission)
    /\ UNCHANGED <<mission, saved, csv, loaded>>

\* if recs.empty: print(...); raise typer.Exit(1)
NoMatch ==
    /\ pc = "returned"
    /\ recs = <<>>
    /\ pc' = "exit 1"
    /\ UNCHANGED <<mission, motors, recs, saved, csv, loaded>>

\* save_recommendations(recs, Path(out_csv)) and the prints after it
SaveRecommendations ==
    /\ pc = "returned"
    /\ recs # <<>>
    /\ saved' = SavedTable(recs)
    /\ pc' = "exit 0"
    /\ UNCHANGED <<mission, motors, recs, csv, loaded>>

Next == RecommendMotors \/ NoMatch \/ SaveRecommendations

Spec == Init /\ [][Next]_vars

\* The command about to call load_motors_csv on the table read from the file.
InitLoad ==
    /\ mission = DefaultMission
    /\ motors = NoTable
    /\ recs = NoTable
    /\ saved = NoTable
    /\ pc = "load"
    /\ csv \in CsvTables
    /\ loaded = NotLoaded

\* motors = load_motors_csv(Path(motors_csv))
LoadMotorsCsv ==
    /\ pc = "load"
    /\ loaded' = IF LoadOutcome(csv).status = "returned" THEN [status |-> "returned"]
                  ELSE LoadOutcome(csv)
    /\ motors' = IF LoadOutcome(csv).status = "returned" THEN LoadOutcome(csv).df ELSE motors
    /\ pc' = IF LoadOutcome(csv).status = "returned" THEN "call" ELSE "ValueError"
    /\ UNCHANGED <<mission, recs, saved, csv>>

NextLoad == LoadMotorsCsv

SpecLoad == InitLoad /\ [][NextLoad]_vars

-----------------------------------------------------------------------------
(* Vocabulary of the properties *)

\* The Mission invariant of the data model.
ValidMission(M) ==
    /\ M.n_motors > 0
    /\ FLt(Q(0, 1), M.mass_kg)
    /\ FLt(Q(0, 1), M.thrust_to_weight)
    /\ M.battery_cells_s > 0
    /\ M.voltage_nom_v # None => FLt(Q(0, 1), M.voltage_nom_v)

\* recommend_motors has just returned a table.
Returned == pc = "returned"

\* recommend_motors has been called and has ended, one way or the other.
Called == pc # "call" /\ pc # "load"

IdsOf(df) == {df[i].id : i \in DOMAIN df}

\* The margins of a catalog row against the mission's estimates.
PowerMarginOf(r, M) == FDiv(r.max_power_w, peak_power_w_est(M))
CurrentMarginOf(r, M) == FDiv(r.max_current_a, peak_current_a_est(M))

InVoltageRange(r, v) ==
    ~FLt(v, r.voltage_min_v) /\ ~FLt(r.voltage_max_v, v)

BothMarginsOK(r, M) ==
    ~FLt(PowerMarginOf(r, M), MIN_MARGIN) /\ ~FLt(CurrentMarginOf(r, M), MIN_MARGIN)

-----------------------------------------------------------------------------
(* C1: for a valid mission, a motor that passed the voltage filter is in   *)
(* the result if and only if its power margin and its current margin are   *)
(* both at least 1.2, the value 1.2 included; the margins the result       *)
(* reports are those ratios.                                               *)
C1_MarginFilterExact ==
    (Returned /\ ValidMission(mission)) =>
        /\ \A i \in DOMAIN motors :
              InVoltageRange(motors[i], v_nom(mission)) =>
                  (motors[i].id \in IdsOf(recs) <=> BothMarginsOK(motors[i], mission))
        /\ \A k \in DOMAIN recs :
              /\ recs[k].power_margin = PowerMarginOf(recs[k], mission)
              /\ recs[k].current_margin = CurrentMarginOf(recs[k], mission)
              /\ FLe(MIN_MARGIN, recs[k].power_margin)
              /\ FLe(MIN_MARGIN, recs[k].current_margin)

\* A valid mission whose result holds a motor with both margins exactly 1.2
\* while a voltage-compatible motor with power margin 1.1 is left out.
C1_Witness ==
    /\ Returned /\ ValidMission(mission)
    /\ \E k \in DOMAIN recs :
          recs[k].power_margin = MIN_MARGIN /\ recs[k].current_margin = MIN_MARGIN
    /\ \E i \in DOMAIN motors :
          /\ InVoltageRange(motors[i], v_nom(mission))
          /\ PowerMarginOf(motors[i], mission) = Q(11, 10)
          /\ motors[i].id \notin IdsOf(recs)

(* C2: for every mission, a motor is in the result only if                 *)
(* voltage_min_v <= v_nom <= voltage_max_v for the voltage the engine      *)
(* used, both bounds inclusive: a motor whose bound equals that voltage    *)
(* and whose margins suffice is in the result, and a motor whose range     *)
(* excludes it is not, whatever its margins.                               *)
C2_VoltageFilterInclusive ==
    Returned =>
        /\ \A k \in DOMAIN recs :
              /\ recs[k].v_nom_used = v_nom(mission)
              /\ ~FLt(recs[k].v_nom_used, recs[k].voltage_min_v)
              /\ ~FLt(recs[k].voltage_max_v, recs[k].v_nom_used)
        /\ \A i \in DOMAIN motors :
              /\ ~InVoltageRange(motors[i], v_nom(mission)) => motors[i].id \notin IdsOf(recs)
              /\ (InVoltageRange(motors[i], v_nom(mission)) /\ BothMarginsOK(motors[i], mission))
                     => motors[i].id \in IdsOf(recs)

\* A result holding a motor whose voltage_min_v is the voltage used and one
\* whose voltage_max_v is, while a motor with sufficient margins is left out
\* for its voltage range.
C2_Witness ==
    /\ Returned
    /\ \E k \in DOMAIN recs : recs[k].voltage_min_v = recs[k].v_nom_used
    /\ \E k \in DOMAIN recs : recs[k].voltage_max_v = recs[k].v_nom_used
    /\ \E i \in DOMAIN motors :
          /\ BothMarginsOK(motors[i], mission)
          /\ ~InVoltageRange(motors[i], v_nom(mission))
          /\ motors[i].id \notin IdsOf(recs)

(* C3: the result (here: of a valid mission) is ascending by score and     *)
(* rows of equal score keep the relative order they had in the catalog.    *)
C3_AscendingAndStable ==
    (Returned /\ ValidMission(mission)) =>
        \A i, j \in DOMAIN recs :
            i < j => /\ FLe(recs[i].score, recs[j].score)
                     /\ FEq(recs[i].score, recs[j].score) => recs[i].id < recs[j].id

(* C4: a mission that violates the Mission invariant makes the engine fail *)
(* with InvalidMission before anything is computed; no table, empty or     *)
(* not, is returned for it.  (The call that ends in the ZeroDivisionError  *)
(* of n_motors = 0 is left aside here: it is an error, though not the one  *)
(* claimed and not before the thrust is computed.)                         *)
C4_InvalidMissionFailsFast ==
    (Called /\ ~ValidMission(mission) /\ pc # "ZeroDivisionError") =>
        (pc = "InvalidMission" /\ recs = NoTable)

\* The effective voltage as the claim states it.
ClaimedEffectiveVoltage(M) ==
    IF M.voltage_nom_v # None /\ FLt(Q(0, 1), M.voltage_nom_v) THEN M.voltage_nom_v
    ELSE FMul(CELL_V, Q(M.battery_cells_s, 1))

(* C5: the voltage the engine uses, and reports as v_nom_used, is the      *)
(* override when it is present and > 0, and 3.7 x battery_cells_s when it  *)
(* is absent, zero or negative (here: for missions whose other fields are  *)
(* valid).                                                                 *)
C5_EffectiveVoltage ==
    (Returned /\ ValidMission([mission EXCEPT !.voltage_nom_v = None])) =>
        /\ v_nom(mission) = ClaimedEffectiveVoltage(mission)
        /\ \A k \in DOMAIN recs : recs[k].v_nom_used = ClaimedEffectiveVoltage(mission)

\* No motor of the catalog passes both stages.
NoSurvivor(df0, M) ==
    \A i \in DOMAIN df0 : ~(InVoltageRange(df0[i], v_nom(M)) /\ BothMarginsOK(df0[i], M))

(* C6: for a valid mission, when the catalog is empty or the two stages    *)
(* leave no motor, recommend_motors returns normally with an empty table   *)
(* (no error), and the command takes its no-match exit.                    *)
C6_EmptyResultIsNotAnError ==
    (Called /\ ValidMission(mission) /\ NoSurvivor(motors, mission)) =>
        /\ pc \in {"returned", "exit 1"}
        /\ recs = <<>>
        /\ saved = NoTable

\* A valid mission against a catalog whose only voltage-compatible motors
\* fail the margin stage: the call has returned an empty table.
C6_Witness ==
    /\ pc = "exit 1" /\ ValidMission(mission) /\ recs = <<>>
    /\ \E i \in DOMAIN motors : InVoltageRange(motors[i], v_nom(mission))
    /\ \E i \in DOMAIN motors : ~InVoltageRange(motors[i], v_nom(mission))

\* The catalog columns of a result row.
CatalogPart(r) == [c \in Range(Required) |-> r[c]]

(* C7: a call leaves the catalog and the mission as they were (same rows,  *)
(* same order, same columns and values), and the table it returns is made  *)
(* of catalog rows, each taken at most once.                               *)
C7_InputsUnchanged ==
    /\ [][motors' = motors /\ mission' = mission]_vars
    /\ [](Returned =>
            /\ \A k \in DOMAIN recs : \E i \in DOMAIN motors : CatalogPart(recs[k]) = motors[i]
            /\ \A j, k \in DOMAIN recs : recs[j].id = recs[k].id => j = k
            /\ \A i \in DOMAIN motors : DOMAIN motors[i] = Range(Required))

\* A call that returned some rows of the catalog and left others out.
C7_Witness ==
    /\ Returned
    /\ recs # <<>>
    /\ Len(recs) < Len(motors)

\* The normalised value the formula of lines 104-105 gives over the rows of
\* the result alone.
OverResult(col, r) ==
    LET lo == SeriesMin(recs, col)
        hi == SeriesMax(recs, col)
    IN  FDiv(FSub(r[col], lo), IF FLt(FSub(hi, lo), RANGE_GUARD) THEN RANGE_GUARD ELSE FSub(hi, lo))

\* What the original claim says of one normalised column of the result.
NormalisedAsClaimed(col, scorecol) ==
    LET lo == SeriesMin(recs, col)
        hi == SeriesMax(recs, col)
    IN  \A k \in DOMAIN recs :
            /\ recs[k][col] = lo => recs[k][scorecol] = Q(0, 1)
            /\ (lo # hi /\ recs[k][col] = hi) => recs[k][scorecol] = Q(1, 1)
            /\ FLe(Q(0, 1), recs[k][scorecol]) /\ FLe(recs[k][scorecol], Q(1, 1))
            /\ lo = hi => recs[k][scorecol] = Q(0, 1)
            /\ recs[k][scorecol] = OverResult(col, recs[k])

\* The same with the guard taken into account: the greatest gets 1 when the
\* spread is at least 1e-9 and spread / 1e-9 when it is less.
NormalisedWithGuard(col, scorecol) ==
    LET lo == SeriesMin(recs, col)
        hi == SeriesMax(recs, col)
    IN  \A k \in DOMAIN recs :
            /\ recs[k][col] = lo => recs[k][scorecol] = Q(0, 1)
            /\ (FLe(RANGE_GUARD, FSub(hi, lo)) /\ recs[k][col] = hi) => recs[k][scorecol] = Q(1, 1)
            /\ (FLt(FSub(hi, lo), RANGE_GUARD) /\ recs[k][col] = hi)
                   => (recs[k][scorecol] = FDiv(FSub(hi, lo), RANGE_GUARD)
                       /\ FLt(recs[k][scorecol], Q(1, 1)))
            /\ FLe(Q(0, 1), recs[k][scorecol]) /\ FLe(recs[k][scorecol], Q(1, 1))
            /\ lo = hi => recs[k][scorecol] = Q(0, 1)
            /\ recs[k][scorecol] = OverResult(col, recs[k])

SingleSurvivorScore ==
    Len(recs) = 1 =>
        /\ recs[1].mass_score = Q(0, 1)
        /\ recs[1].price_score = Q(0, 1)
        /\ recs[1].score = FNeg(FMul(W_MARGIN, recs[1].margin_score))

(* C8 as claimed: mass_score and price_score are min-max normalised over   *)
(* the rows of the result only; the lightest gets 0, the heaviest 1        *)
(* whenever the masses differ, the others lie between; all 0 when the      *)
(* masses are equal; with one survivor score = -0.3 x margin_score.        *)
C8_NormalisedOverSurvivors_Claimed ==
    (Returned /\ ValidMission(mission)) =>
        /\ NormalisedAsClaimed("mass_g", "mass_score")
        /\ NormalisedAsClaimed("price_usd", "price_score")
        /\ SingleSurvivorScore

(* C8 amended: as claimed, except that the heaviest (the dearest) gets 1   *)
(* only when the spread is at least 1e-9; with a smaller non-zero spread   *)
(* it gets spread / 1e-9, which is below 1.                                *)
C8_NormalisedOverSurvivors ==
    Returned =>
        /\ NormalisedWithGuard("mass_g", "mass_score")
        /\ NormalisedWithGuard("price_usd", "price_score")
        /\ SingleSurvivorScore

\* Two survivors whose masses differ by less than 1e-9, and a rejected
\* motor heavier than every survivor.
C8_Witness ==
    /\ Returned /\ ValidMission(mission)
    /\ Len(recs) >= 2
    /\ FLt(Q(0, 1), FSub(SeriesMax(recs, "mass_g"), SeriesMin(recs, "mass_g")))
    /\ FLt(FSub(SeriesMax(recs, "mass_g"), SeriesMin(recs, "mass_g")), RANGE_GUARD)
    /\ \E i \in DOMAIN motors :
          /\ motors[i].id \notin IdsOf(recs)
          /\ FLt(SeriesMax(recs, "mass_g"), motors[i].mass_g)

\* The catalog with every price p replaced by a * p + b.
Rescaled(df0, a, b) ==
    Frame([i \in DOMAIN df0 |-> [df0[i] EXCEPT !.price_usd = FAdd(FMul(a, @), b)]])

\* The rescalings p |-> a * p + b explored: <<a, b>> with a > 0.
Rescalings == {<<Q(1, 2), Q(-1, 1)>>, <<Q(2, 1), Q(5, 2)>>}

\* The row of a frame with a given identifier.
RowOf(df, id) == df[CHOOSE i \in DOMAIN df : df[i].id = id]

\* The frame recommend_motors sorts for the rescaled catalog.
RescaledFrames(a, b) == {Scored(Rescaled(motors, a, b), mission)}

\* The rescaled catalog has the survivors of the catalog.
SameSurvivors(a, b) ==
    IdsOf(Survivors(Rescaled(motors, a, b), mission)) = IdsOf(recs)

\* Every survivor keeps its price_score and its score, and the order of the
\* result is an order the sort may give for the rescaled catalog.
SameScoresAndOrder(a, b) ==
    \A other \in RescaledFrames(a, b) :
        /\ \A k \in DOMAIN recs :
              /\ RowOf(other, recs[k].id).price_score = recs[k].price_score
              /\ RowOf(other, recs[k].id).score = recs[k].score
        /\ Ascending([k \in DOMAIN recs |-> RowOf(other, recs[k].id)])

PriceSpread == FSub(SeriesMax(recs, "price_usd"), SeriesMin(recs, "price_usd"))

(* C9 as claimed: replacing every price p by a * p + b, a > 0, changes     *)
(* neither the survivors nor any survivor's price_score and score, nor the *)
(* order of the result (checked for the results of valid missions).        *)
C9_PriceRescaling_Claimed ==
    (pc = "returned" /\ ValidMission(mission)) =>
        \A ab \in Rescalings : SameSurvivors(ab[1], ab[2]) /\ SameScoresAndOrder(ab[1], ab[2])

(* C9 amended: the survivors never change; price_score, score and order    *)
(* are unchanged when the survivors' price spread is zero, or is at least  *)
(* 1e-9 both before and after the rescaling.                               *)
C9_PriceRescaling ==
    pc = "returned" =>
        \A ab \in Rescalings :
            /\ SameSurvivors(ab[1], ab[2])
            /\ (recs # <<>> /\ (IsZero(PriceSpread)
                                \/ (FLe(RANGE_GUARD, PriceSpread)
                                    /\ FLe(RANGE_GUARD, FMul(ab[1], PriceSpread)))))
                   => SameScoresAndOrder(ab[1], ab[2])

\* A result of three motors with three different prices, at least 1e-9
\* apart at every scale explored.
C9_Witness ==
    /\ pc = "returned" /\ ValidMission(mission)
    /\ Len(recs) >= 3
    /\ \A j, k \in DOMAIN recs : j # k => recs[j].price_usd # recs[k].price_usd
    /\ \A ab \in Rescalings : FLe(RANGE_GUARD, FMul(ab[1], PriceSpread))

-----------------------------------------------------------------------------
(* Properties of load_motors_csv, under SpecLoad *)

\* The cell texts that are numbers.
NumberTexts == {"12", "2.5", "-3"}

\* The rows of the file with a cell of a numeric column that is not a number.
Offending(t) ==
    SelectSeq(t.rows, LAMBDA r : \E c \in Range(NumericCols) \cap t.columns : r[c] \notin NumberTexts)

OffendingIds(t) == [i \in DOMAIN Offending(t) |-> Offending(t)[i].id]

\* All or nothing on the numeric cells.
AllOrNothing ==
    IF Offending(csv) # <<>>
    THEN /\ pc = "ValueError"
         /\ loaded.status = "ValueError"
         /\ loaded.what = "non-numeric values in rows"
         /\ loaded.list = OffendingIds(csv)
         /\ motors = NoTable
    ELSE /\ pc = "call"
         /\ loaded.status = "returned"
         /\ Len(motors) = Len(csv.rows)
         /\ \A i \in DOMAIN motors :
               /\ motors[i].id = csv.rows[i].id
               /\ DOMAIN motors[i] = csv.columns
               /\ \A c \in Range(NumericCols) : ~IsNaN(motors[i][c])

====
